---- MODULE Spec2Model ----
(***************************************************************************)
(* Session lifecycle and fan-out relay of the live-audio server            *)
(* (src/server/server.js).  Node runs every handler to completion, so each *)
(* HTTP handler, upgrade (gate plus 'connection' handler, which ws calls   *)
(* synchronously from handleUpgrade), socket event and timer callback is   *)
(* one atomic action.                                                      *)
(*                                                                         *)
(* Session objects live in a heap `sess` (they outlive their entry in the  *)
(* `sessions` Map because closures keep them); the Map `sessions` holds a  *)
(* reference per id.  Handlers are written as functions on a "world"       *)
(* record W = [sessions, sess, sock] so that a handler can call another    *)
(* (teardownSession, notifyListenerCount) in sequence, as the code does.   *)
(*                                                                         *)
(* Spec is the server.  PathSpec applies the recording download            *)
(* (server.js:102-107) to every request parameter of a bounded set.        *)
(* ClientSpec is the broadcaster page (src/public/js/listener.js:473-536), *)
(* which holds chunks back while the server reports backpressure.          *)
(***************************************************************************)
EXTENDS Integers, Sequences, FiniteSets, TLC

\* ------------------------------------------------------------------ bounds
MaxSessions == 2        \* session objects ever created
MaxSockets == 3         \* WebSocket connections ever upgraded
MaxMsgs == 3            \* frames the broadcaster peers send in all
MaxFaults == 1          \* handlers in which a socket call fails, and 'error' events
MaxStalls == 2         \* writes the recording stream answers with false
MaxSteps == 6           \* handlers run in one behaviour
MaxSegs == 3            \* path segments in the file parameter of a download
MaxProduced == 12       \* chunks the recorder of the broadcaster page produces
MAX_LISTENERS == 2      \* MAX_LISTENERS_PER_SESSION (200 by default)
MAX_PENDING == 10       \* listener.js:476

Ids == {1, 2}           \* values of uuidv4().slice(0, 8)
Tokens == {1, 2}        \* values of uuidv4().replace(/-/g, '')
NoToken == 0            \* url.searchParams.get('t') || null
NoSid == 0              \* sid parameter missing
Chunks == {<<1>>, <<2, 3>>}   \* binary payloads (byte sequences)
Roles == {"broadcaster", "listener", "other", "none"}
TextKinds == {"meta", "stop", "other", "garbage"}

Objs == 1..MaxSessions
Sockets == 1..MaxSockets

VARIABLES
  sessions,   \* the Map: id -> session object (0 = no entry)
  sess,       \* heap of session objects
  nSess,      \* session objects allocated so far
  sock,       \* WebSocket objects
  nSock,      \* sockets allocated so far
  nMsgs,      \* frames received from broadcaster peers so far
  nFaults,    \* failing socket calls and 'error' events so far
  nStalls,    \* writes answered with false so far
  steps,      \* handlers run so far
  ev,         \* the handler that ran last, with its inputs and its answer
  client      \* the broadcaster page: its latch, its held chunks, its socket

counters == <<nSess, nSock, nMsgs, nFaults, nStalls>>
server == <<sessions, sess, sock, counters, steps, ev>>
vars == <<sessions, sess, sock, counters, steps, ev, client>>

\* ------------------------------------------------------------------ frames
Frame(type, reason, n, data, origin) ==
  [type |-> type, reason |-> reason, n |-> n, data |-> data, origin |-> origin]

TextFrame(type) == Frame(type, "", 0, <<>>, 0)
ErrorFrame == TextFrame("error")
OkFrame == TextFrame("ok")
BroadcastStarted == TextFrame("broadcast-started")
BackpressureFrame == TextFrame("backpressure")
DrainFrame == TextFrame("drain")
MetaFrame == TextFrame("meta")
ListenerCount(n) == Frame("listener-count", "", n, <<>>, 0)
InitSegmentAnnounce(n) == Frame("init-segment", "", n, <<>>, 0)
SessionEnded(reason) == Frame("session-ended", reason, 0, <<>>, 0)
\* origin: the session whose broadcaster produced the bytes (history only)
Binary(data, origin) == Frame("binary", "", 0, data, origin)

\* ------------------------------------------------------------------ objects
NoSession ==
  [id |-> 0, token |-> 0, active |-> FALSE, broadcasterSocket |-> 0,
   listeners |-> {}, initSegment |-> <<>>, initSegmentOrigin |-> 0,
   initSegmentReceived |-> FALSE,
   cleanupTimer |-> FALSE, timerArmed |-> FALSE,
   recording |-> <<>>, recFrom |-> {}, ended |-> 0, needDrain |-> FALSE,
   draining |-> FALSE, drainTo |-> 0,
   rx |-> <<>>, rxLive |-> <<>>, filePath |-> <<>>]

NewSession(id, token) ==
  [NoSession EXCEPT !.id = id, !.token = token, !.active = TRUE,
                    !.cleanupTimer = TRUE, !.timerArmed = TRUE]

NoSocket ==
  [kind |-> "free", session |-> 0, rs |-> "NONE", inbound |-> FALSE,
   sent |-> <<>>, closeCalled |-> FALSE, terminated |-> FALSE, t |-> 0,
   cbErr |-> FALSE, errored |-> FALSE]

NewSocket(kind, o, t) ==
  [NoSocket EXCEPT !.kind = kind, !.session = o, !.rs = "OPEN",
                   !.inbound = TRUE, !.t = t]

\* ------------------------------------------------------------------ paths
\* A path is the sequence of its segments from the root.
RECORDINGS_DIR == <<"srv", "recordings">>

\* `broadcast-${id}-${Date.now()}.webm`: one name per id and creation time
FileName(id, o) ==
  << <<"broadcast-1-t1", "broadcast-1-t2", "broadcast-1-t3", "broadcast-1-t4">>,
     <<"broadcast-2-t1", "broadcast-2-t2", "broadcast-2-t3", "broadcast-2-t4">> >>[id][o]

\* path.normalize of an absolute path: '..' steps to the parent, and the
\* parent of the root is the root
RECURSIVE normalize(_, _)
normalize(done, segs) ==
  IF segs = <<>> THEN done
  ELSE normalize(IF Head(segs) = ".."
                 THEN SubSeq(done, 1, Len(done) - 1)
                 ELSE Append(done, Head(segs)),
                 Tail(segs))

\* path.join(dir, file): the concatenation, normalized
join(dir, file) == normalize(<<>>, dir \o file)

\* path.basename
basename(path) == path[Len(path)]

\* ------------------------------------------------------------------ page state
\* The broadcaster page, for the socket openWs() made: `paused`,
\* `pendingChunks`, whether `ws` still names the socket, its readyState;
\* wire: the chunks given to ws.send(), produced: the chunks the recorder
\* has delivered, signal: the last backpressure or drain frame received,
\* ev: the handler of the page that ran last.
NewClient ==
  [paused |-> FALSE, pendingChunks |-> <<>>, ws |-> TRUE,
   readyState |-> "CONNECTING", wire |-> <<>>, produced |-> 0,
   signal |-> "none", ev |-> "openWs"]

World == [sessions |-> sessions, sess |-> sess, sock |-> sock]

\* op: the handler; o: the session object it closes over or found (0 for a
\* refused request); res: its answer, or the reason or frame kind it handled
Event(op, o, res) == [op |-> op, o |-> o, res |-> res]

Init ==
  /\ sessions = [i \in Ids |-> 0]
  /\ sess = [o \in Objs |-> NoSession]
  /\ nSess = 0
  /\ sock = [w \in Sockets |-> NoSocket]
  /\ nSock = 0
  /\ nMsgs = 0
  /\ nFaults = 0
  /\ nStalls = 0
  /\ steps = 0
  /\ ev = Event("init", 0, "")
  /\ client = NewClient

\* ------------------------------------------------------------------ sockets
\* ws.send(frame): the frame is handed to the socket
send(W, w, f) == [W EXCEPT !.sock[w].sent = Append(@, f)]

\* ws.close(): starts the closing handshake of an OPEN socket; the peer's
\* frames already in flight are still delivered until the 'close' event
close(W, w) ==
  IF W.sock[w].rs = "OPEN"
  THEN [W EXCEPT !.sock[w].rs = "CLOSING", !.sock[w].closeCalled = TRUE]
  ELSE W

\* ws.terminate(): destroys the connection
terminate(W, w) ==
  IF W.sock[w].rs = "CLOSED"
  THEN W
  ELSE [W EXCEPT !.sock[w].rs = "CLOSING", !.sock[w].inbound = FALSE,
                 !.sock[w].terminated = TRUE]

\* for (const l of S) f(l): each iteration touches only the socket l, so
\* the loop is a pointwise update of the sockets in S
ForEach(W, S, f(_, _)) ==
  [W EXCEPT !.sock = [w \in Sockets |-> IF w \in S THEN f(W, w).sock[w] ELSE @[w]]]

OpenListeners(W, o) == {l \in W.sess[o].listeners : W.sock[l].rs = "OPEN"}

\* ------------------------------------------------------------------ helpers
notifyListenerCount(W, o) ==
  LET b == W.sess[o].broadcasterSocket
  IN IF b # 0 /\ W.sock[b].rs = "OPEN"
     THEN send(W, b, ListenerCount(Cardinality(W.sess[o].listeners)))
     ELSE W

broadcastToListeners(W, o, f) ==
  LET One(V, l) == send(V, l, f)
  IN ForEach(W, OpenListeners(W, o), One)

\* variant: the listeners are closed without being told
EndListenersSilent(W, o, reason, thr) ==
  LET One(V, l) == IF thr[l] = "ok" THEN close(V, l) ELSE terminate(V, l)
  IN ForEach(W, W.sess[o].listeners, One)

\* the listener loop of teardownSession; thr[l] says which call throws
EndListeners(W, o, reason, thr) ==
  LET One(V, l) ==
        IF thr[l] = "send" THEN terminate(V, l)
        ELSE IF thr[l] = "close"
        THEN terminate(send(V, l, SessionEnded(reason)), l)
        ELSE close(send(V, l, SessionEnded(reason)), l)
  IN ForEach(W, W.sess[o].listeners, One)

\* session.broadcasterSocket.close() inside try/catch; bthrow: it throws
CloseBroadcaster(W, o, bthrow) ==
  LET b == W.sess[o].broadcasterSocket
  IN IF b = 0 THEN W
     ELSE [(IF bthrow THEN W ELSE close(W, b))
             EXCEPT !.sess[o].broadcasterSocket = 0]

\* variant: the entry is left in the Map
teardownSessionKeepsEntry(W, id, reason, bthrow, thr) ==
  LET o == W.sessions[id]
  IN IF o = 0 THEN W
     ELSE
       LET W1 == [W EXCEPT !.sess[o].active = FALSE,
                           !.sess[o].cleanupTimer = FALSE,
                           !.sess[o].timerArmed = FALSE]
           W2 == CloseBroadcaster(W1, o, bthrow)
           W3 == EndListeners(W2, o, reason, thr)
       IN [W3 EXCEPT !.sess[o].listeners = {},
                     !.sess[o].initSegment = <<>>,
                     !.sess[o].ended = @ + 1]

\* variant: the socket calls are not guarded, so the first one that throws
\* ends the handler
teardownSessionUnguarded(W, id, reason, bthrow, thr) ==
  LET o == W.sessions[id]
  IN IF o = 0 THEN W
     ELSE
       LET W1 == [W EXCEPT !.sess[o].active = FALSE,
                           !.sess[o].cleanupTimer = FALSE,
                           !.sess[o].timerArmed = FALSE]
           W2 == CloseBroadcaster(W1, o, bthrow)
           W3 == EndListeners(W2, o, reason, thr)
           W4 == [W3 EXCEPT !.sess[o].listeners = {},
                            !.sess[o].initSegment = <<>>,
                            !.sess[o].ended = @ + 1]
       IN IF bthrow THEN W1
          ELSE IF \E l \in DOMAIN thr : thr[l] # "ok" THEN W3
          ELSE [W4 EXCEPT !.sessions[id] = 0]

teardownSession(W, id, reason, bthrow, thr) ==
  LET o == W.sessions[id]
  IN IF o = 0 THEN W
     ELSE
       LET W1 == [W EXCEPT !.sess[o].active = FALSE,
                           !.sess[o].cleanupTimer = FALSE,
                           !.sess[o].timerArmed = FALSE]
           W2 == CloseBroadcaster(W1, o, bthrow)
           W3 == EndListeners(W2, o, reason, thr)
           W4 == [W3 EXCEPT !.sess[o].listeners = {},
                            !.sess[o].initSegment = <<>>,
                            !.sess[o].ended = @ + 1]
       IN [W4 EXCEPT !.sessions[id] = 0]

\* the outcomes the sockets of the session registered under id can give
Faulty == nFaults < MaxFaults

Throws(id) ==
  IF id \in Ids /\ sessions[id] # 0
  THEN [sess[sessions[id]].listeners ->
          IF Faulty THEN {"ok", "send", "close"} ELSE {"ok"}]
  ELSE {<<>>}

BThrows(id) ==
  IF id \in Ids /\ sessions[id] # 0 /\ sess[sessions[id]].broadcasterSocket # 0
     /\ Faulty
  THEN BOOLEAN ELSE {FALSE}

\* a handler in which some socket call failed uses up one fault
Fault(failed) == nFaults' = IF failed THEN nFaults + 1 ELSE nFaults
TdFault(bthrow, thr) == Fault(bthrow \/ \E l \in DOMAIN thr : thr[l] # "ok")

\* one more handler of the server runs; the page is not the server's to change
Tick == steps < MaxSteps /\ steps' = steps + 1 /\ UNCHANGED client

Commit(W) ==
  /\ sessions' = W.sessions
  /\ sess' = W.sess
  /\ sock' = W.sock

\* ------------------------------------------------------------------ HTTP
\* POST /api/session/create
Create(id, token) ==
  /\ Tick
  /\ nSess < MaxSessions
  /\ LET o == nSess + 1
     IN /\ sess' = [sess EXCEPT ![o] =
                        [NewSession(id, token) EXCEPT
                           !.filePath = join(RECORDINGS_DIR, <<FileName(id, o)>>)]]
        /\ sessions' = [sessions EXCEPT ![id] = o]
        /\ nSess' = o
        /\ ev' = Event("create", o, "200")
  /\ UNCHANGED <<sock, nSock, nMsgs, nFaults, nStalls>>

\* the answer of the stop call: the status, and the recording it names
StopAnswer(o, res, id, recording) ==
  [op |-> "http-stop", o |-> o, res |-> res, id |-> id, recording |-> recording]

\* variant: teardownSession is called without its reason
HttpStopDefaultReason(id) ==
  /\ Tick
  /\ IF sessions[id] = 0
     THEN /\ ev' = StopAnswer(0, "404", id, "")
          /\ UNCHANGED <<sessions, sess, sock, nFaults>>
     ELSE \E bthrow \in BThrows(id), thr \in Throws(id) :
            /\ Commit(teardownSession(World, id, "stopped", bthrow, thr))
            /\ TdFault(bthrow, thr)
            /\ ev' = StopAnswer(sessions[id], "200", id,
                                basename(sess[sessions[id]].filePath))
  /\ UNCHANGED <<nSess, nSock, nMsgs, nStalls>>

\* POST /api/session/:id/stop
HttpStop(id) ==
  /\ Tick
  /\ IF sessions[id] = 0
     THEN /\ ev' = StopAnswer(0, "404", id, "")
          /\ UNCHANGED <<sessions, sess, sock, nFaults>>
     ELSE \E bthrow \in BThrows(id), thr \in Throws(id) :
            /\ Commit(teardownSession(World, id, "stopped-by-broadcaster", bthrow, thr))
            /\ TdFault(bthrow, thr)
            /\ ev' = StopAnswer(sessions[id], "200", id,
                                basename(sess[sessions[id]].filePath))
  /\ UNCHANGED <<nSess, nSock, nMsgs, nStalls>>

\* GET /api/recording/:file.  The parameter is the decoded path segment, so
\* it can hold separators and '..' (%2F, %2E); it is modelled as the
\* sequence of its segments.  Files: the regular files of the file system.
Segs == {"..", "recordings", "secret", "sub", FileName(1, 1)}
FileParams == UNION {[1..n -> Segs] : n \in 1..MaxSegs}
Files ==
  {join(RECORDINGS_DIR, <<FileName(1, 1)>>),
   join(RECORDINGS_DIR, <<"sub", FileName(1, 1)>>),
   <<"srv", "secret">>,
   <<"secret">>}
Dirs == UNION {{SubSeq(f, 1, k) : k \in 0..(Len(f) - 1)} : f \in Files}

DownloadAnswer(res, file, served) ==
  [op |-> "download", o |-> 0, res |-> res, file |-> file, served |-> served]

Download(file) ==
  /\ LET fp == join(RECORDINGS_DIR, file)
     IN ev' = IF fp \in Files THEN DownloadAnswer("200", file, fp)
              ELSE IF fp \in Dirs THEN DownloadAnswer("error", file, <<>>)
              ELSE DownloadAnswer("404", file, <<>>)
  /\ UNCHANGED <<sessions, sess, sock, counters, steps, client>>

\* the setTimeout callback of the session object o
TimerFire(o) ==
  /\ Tick
  /\ o <= nSess
  /\ sess[o].timerArmed
  /\ LET id == sess[o].id
         W0 == [World EXCEPT !.sess[o].timerArmed = FALSE]
     IN IF sessions[id] = 0
        THEN Commit(W0) /\ ev' = Event("timer", o, "skip")
             /\ UNCHANGED nFaults
        ELSE \E bthrow \in BThrows(id), thr \in Throws(id) :
               /\ Commit(teardownSession(W0, id, "expired", bthrow, thr))
               /\ TdFault(bthrow, thr)
               /\ ev' = Event("timer", o, "teardown")
  /\ UNCHANGED <<nSess, nSock, nMsgs, nStalls>>

\* ------------------------------------------------------------------ WebSocket
\* variant: the gate without the capacity check
GateNoCapacity(W, sid, role, t) ==
  IF sid = NoSid \/ role = "none" THEN "malformed"
  ELSE LET o == W.sessions[sid]
       IN IF o = 0 \/ ~W.sess[o].active THEN "no-session"
          ELSE IF role = "listener" /\ t # W.sess[o].token THEN "bad-token"
          ELSE "upgrade"

\* variant: the gate accepts a missing token
GateNoToken(W, sid, role, t) ==
  IF sid = NoSid \/ role = "none" THEN "malformed"
  ELSE LET o == W.sessions[sid]
       IN IF o = 0 \/ ~W.sess[o].active THEN "no-session"
          ELSE IF role = "listener" /\ t # NoToken /\ t # W.sess[o].token
          THEN "bad-token"
          ELSE IF role = "listener"
                  /\ Cardinality(W.sess[o].listeners) >= MAX_LISTENERS THEN "full"
          ELSE "upgrade"

\* server.on('upgrade'): the answer of the gate
Gate(W, sid, role, t) ==
  IF sid = NoSid \/ role = "none" THEN "malformed"
  ELSE LET o == W.sessions[sid]
       IN IF o = 0 \/ ~W.sess[o].active THEN "no-session"
          ELSE IF role = "listener" /\ t # W.sess[o].token THEN "bad-token"
          ELSE IF role = "listener"
                  /\ Cardinality(W.sess[o].listeners) >= MAX_LISTENERS THEN "full"
          ELSE "upgrade"

\* variant: a later broadcaster takes the slot over
attachBroadcasterTakeOver(W, w, o) ==
  LET W1 == [W EXCEPT !.sess[o].broadcasterSocket = w,
                      !.sess[o].draining = FALSE,
                      !.sess[o].drainTo = w,
                      !.sock[w].kind = "broadcaster",
                      !.sock[w].session = o]
      One(V, l) == send(V, l, BroadcastStarted)
  IN ForEach(W1, W1.sess[o].listeners, One)

\* variant: the slot is checked after the listeners were notified
attachBroadcasterNotifiesFirst(W, w, o) ==
  LET One(V, l) == send(V, l, BroadcastStarted)
      W0 == ForEach(W, W.sess[o].listeners, One)
  IN IF W.sess[o].broadcasterSocket # 0
     THEN close(send([W0 EXCEPT !.sock[w].kind = "rejected",
                                !.sock[w].session = o], w, ErrorFrame), w)
     ELSE [W0 EXCEPT !.sess[o].broadcasterSocket = w,
                     !.sess[o].draining = FALSE,
                     !.sess[o].drainTo = w,
                     !.sock[w].kind = "broadcaster",
                     !.sock[w].session = o]

\* variant: the listeners already attached are not told
attachBroadcasterSilent(W, w, o) ==
  IF W.sess[o].broadcasterSocket # 0
  THEN close(send([W EXCEPT !.sock[w].kind = "rejected",
                            !.sock[w].session = o], w, ErrorFrame), w)
  ELSE [W EXCEPT !.sess[o].broadcasterSocket = w,
                 !.sess[o].draining = FALSE,
                 !.sess[o].drainTo = w,
                 !.sock[w].kind = "broadcaster",
                 !.sock[w].session = o]

\* wss.on('connection'), broadcaster branch
attachBroadcaster(W, w, o) ==
  IF W.sess[o].broadcasterSocket # 0
  THEN close(send([W EXCEPT !.sock[w].kind = "rejected",
                            !.sock[w].session = o], w, ErrorFrame), w)
  ELSE LET W1 == [W EXCEPT !.sess[o].broadcasterSocket = w,
                           !.sess[o].draining = FALSE,
                           !.sess[o].drainTo = w,
                           !.sock[w].kind = "broadcaster",
                           !.sock[w].session = o]
           One(V, l) == send(V, l, BroadcastStarted)
       IN ForEach(W1, W1.sess[o].listeners, One)

\* variant: a late joiner is not sent the cached segment
attachListenerNoBootstrap(W, w, o) ==
  LET W1 == [W EXCEPT !.sess[o].listeners = @ \cup {w},
                      !.sock[w].kind = "listener",
                      !.sock[w].session = o]
      W2 == notifyListenerCount(send(W1, w, OkFrame), o)
  IN IF W2.sess[o].broadcasterSocket # 0
     THEN send(W2, w, BroadcastStarted)
     ELSE W2

\* variant: a late joiner is sent the latest chunk instead of the first
attachListenerReplaysLast(W, w, o) ==
  LET W1 == [W EXCEPT !.sess[o].listeners = @ \cup {w},
                      !.sock[w].kind = "listener",
                      !.sock[w].session = o]
      W2 == notifyListenerCount(send(W1, w, OkFrame), o)
      rx == W2.sess[o].rx
      W3 == IF W2.sess[o].initSegment # <<>>
            THEN send(send(W2, w, InitSegmentAnnounce(Len(rx[Len(rx)]))),
                      w, Binary(rx[Len(rx)], o))
            ELSE W2
  IN IF W3.sess[o].broadcasterSocket # 0
     THEN send(W3, w, BroadcastStarted)
     ELSE W3

\* variant: broadcast-started is sent before the cached segment
attachListenerStartedFirst(W, w, o) ==
  LET W1 == [W EXCEPT !.sess[o].listeners = @ \cup {w},
                      !.sock[w].kind = "listener",
                      !.sock[w].session = o]
      W2 == notifyListenerCount(send(W1, w, OkFrame), o)
      W3 == IF W2.sess[o].broadcasterSocket # 0
            THEN send(W2, w, BroadcastStarted)
            ELSE W2
      seg == W3.sess[o].initSegment
  IN IF seg # <<>>
     THEN send(send(W3, w, InitSegmentAnnounce(Len(seg[1]))),
               w, Binary(seg[1], W3.sess[o].initSegmentOrigin))
     ELSE W3

\* wss.on('connection'), listener branch
attachListener(W, w, o) ==
  LET W1 == [W EXCEPT !.sess[o].listeners = @ \cup {w},
                      !.sock[w].kind = "listener",
                      !.sock[w].session = o]
      W2 == notifyListenerCount(send(W1, w, OkFrame), o)
      seg == W2.sess[o].initSegment
      W3 == IF seg # <<>>
            THEN send(send(W2, w, InitSegmentAnnounce(Len(seg[1]))),
                      w, Binary(seg[1], W2.sess[o].initSegmentOrigin))
            ELSE W2
  IN IF W3.sess[o].broadcasterSocket # 0
     THEN send(W3, w, BroadcastStarted)
     ELSE W3

\* wss.on('connection'); a socket that is closed at once (no session, or a
\* role that is neither) gets no handler and is referenced by nothing
connection(W, w, sid, role) ==
  LET o == W.sessions[sid]
  IN IF o = 0 THEN close(W, w)
     ELSE IF role = "broadcaster" THEN attachBroadcaster(W, w, o)
     ELSE IF role = "listener" THEN attachListener(W, w, o)
     ELSE close(W, w)

\* an upgrade request: the gate, then handleUpgrade and the 'connection'
\* handler in the same turn of the event loop
Upgrade(sid, role, t) ==
  /\ Tick
  /\ LET g == Gate(World, sid, role, t)
         o == IF sid = NoSid THEN 0 ELSE sessions[sid]
     IN IF g # "upgrade"
        THEN /\ ev' = Event("upgrade", 0, g)
             /\ UNCHANGED <<sessions, sess, sock, counters>>
        ELSE /\ nSock < MaxSockets
             /\ LET w == nSock + 1
                    W0 == [World EXCEPT !.sock[w] = NewSocket("other", 0, t)]
                    W1 == connection(W0, w, sid, role)
                    kept == W1.sock[w].kind # "other"
                IN /\ Commit(IF kept THEN W1 ELSE World)
                   /\ nSock' = IF kept THEN w ELSE nSock
                   /\ ev' = Event("upgrade", o, IF kept THEN role ELSE "closed")
             /\ UNCHANGED <<nSess, nMsgs, nFaults, nStalls>>

\* variant: every chunk replaces the cached segment
cacheInitSegmentAlways(W, o, chunk) ==
  [W EXCEPT !.sess[o].initSegment = <<chunk>>,
            !.sess[o].initSegmentOrigin = o,
            !.sess[o].initSegmentReceived = TRUE]

\* broadcaster ws.on('message'), binary: cache the first chunk
cacheInitSegment(W, o, chunk) ==
  IF ~W.sess[o].initSegmentReceived
  THEN [W EXCEPT !.sess[o].initSegment = <<chunk>>,
                 !.sess[o].initSegmentOrigin = o,
                 !.sess[o].initSegmentReceived = TRUE]
  ELSE W

\* variant: a chunk that arrives while the stream waits for 'drain' is dropped
streamWriteDropsWhenFull(W, o, chunk, ok) ==
  IF W.sess[o].ended > 0 \/ W.sess[o].needDrain THEN W
  ELSE [W EXCEPT !.sess[o].recording = @ \o chunk,
                 !.sess[o].recFrom = @ \cup {o},
                 !.sess[o].needDrain = @ \/ ~ok]

\* session.wsWriteStream.write(chunk): an ended stream takes no more bytes
\* and answers false; otherwise the bytes are appended and the answer `ok`
\* tells whether the buffer is below the high-water mark
streamWrite(W, o, chunk, ok) ==
  IF W.sess[o].ended > 0 THEN W
  ELSE [W EXCEPT !.sess[o].recording = @ \o chunk,
                 !.sess[o].recFrom = @ \cup {o},
                 !.sess[o].needDrain = @ \/ ~ok]

\* variant: every write that is not accepted is reported
writeChunkNoLatch(W, w, o, chunk, ok) ==
  LET W1 == streamWrite(W, o, chunk, ok)
      accepted == ok /\ W.sess[o].ended = 0
  IN IF ~accepted
     THEN send([W1 EXCEPT !.sess[o].draining = TRUE], w, BackpressureFrame)
     ELSE W1

\* broadcaster ws.on('message'), binary: write with the backpressure latch
writeChunk(W, w, o, chunk, ok) ==
  LET W1 == streamWrite(W, o, chunk, ok)
      accepted == ok /\ W.sess[o].ended = 0
  IN IF ~accepted /\ ~W1.sess[o].draining
     THEN send([W1 EXCEPT !.sess[o].draining = TRUE], w, BackpressureFrame)
     ELSE W1

\* variant: the chunk goes to the listeners of every session
fanOutAllSessions(W, o, chunk, out) ==
  LET L == UNION {OpenListeners(W, p) : p \in Objs}
      One(V, l) == send(V, l, Binary(chunk, o))
  IN ForEach(W, L, One)

\* variant: a send that throws ends the loop, so the other listeners miss
\* the chunk
fanOutStopsAtFailure(W, o, chunk, out) ==
  LET L == OpenListeners(W, o)
      failed == \E l \in L : out[l] = "throw"
      One(V, l) ==
        IF out[l] = "throw" THEN terminate(V, l)
        ELSE IF failed THEN V
        ELSE IF out[l] = "cberr"
        THEN [send(V, l, Binary(chunk, o)) EXCEPT !.sock[l].cbErr = TRUE]
        ELSE send(V, l, Binary(chunk, o))
      W1 == ForEach(W, L, One)
  IN [W1 EXCEPT !.sess[o].listeners = @ \ {l \in L : out[l] = "throw"}]

\* broadcaster ws.on('message'), binary: the loop over session.listeners;
\* out[l]: the send to l succeeds, throws, or reports an error to its callback
fanOut(W, o, chunk, out) ==
  LET L == OpenListeners(W, o)
      One(V, l) ==
        IF out[l] = "throw" THEN terminate(V, l)
        ELSE IF out[l] = "cberr"
        THEN [send(V, l, Binary(chunk, o)) EXCEPT !.sock[l].cbErr = TRUE]
        ELSE send(V, l, Binary(chunk, o))
      W1 == ForEach(W, L, One)
  IN [W1 EXCEPT !.sess[o].listeners = @ \ {l \in L : out[l] = "throw"}]

onBinary(W, w, chunk, ok, out) ==
  LET o == W.sock[w].session
      W0 == [W EXCEPT !.sess[o].rx = Append(@, chunk),
                      !.sess[o].rxLive =
                         IF W.sess[o].ended = 0 THEN Append(@, chunk) ELSE @]
  IN fanOut(writeChunk(cacheInitSegment(W0, o, chunk), w, o, chunk, ok),
            o, chunk, out)

\* broadcaster ws.on('message'), text
onText(W, w, kind, bthrow, thr) ==
  LET o == W.sock[w].session
  IN IF kind = "meta" THEN broadcastToListeners(W, o, MetaFrame)
     ELSE IF kind = "stop"
     THEN teardownSession(W, W.sess[o].id, "stopped-by-broadcaster", bthrow, thr)
     ELSE W

Receiving(w) ==
  /\ w <= nSock
  /\ sock[w].kind = "broadcaster"
  /\ sock[w].inbound
  /\ sock[w].rs # "CLOSED"
  /\ nMsgs < MaxMsgs

BinaryMessage(w, chunk) ==
  /\ Tick
  /\ Receiving(w)
  /\ LET o == sock[w].session
     IN \E ok \in (IF sess[o].ended > 0 THEN {FALSE}
                   ELSE IF nStalls < MaxStalls THEN BOOLEAN ELSE {TRUE}),
           out \in [OpenListeners(World, o) ->
                      IF Faulty THEN {"ok", "throw", "cberr"} ELSE {"ok"}] :
          /\ Commit(onBinary(World, w, chunk, ok, out))
          /\ Fault(\E l \in DOMAIN out : out[l] # "ok")
          /\ nStalls' = IF ok \/ sess[o].ended > 0 THEN nStalls ELSE nStalls + 1
          /\ ev' = Event("binary", o, "")
  /\ nMsgs' = nMsgs + 1
  /\ UNCHANGED <<nSess, nSock>>

TextMessage(w, kind) ==
  /\ Tick
  /\ Receiving(w)
  /\ LET o == sock[w].session
         id == sess[o].id
     IN \E bthrow \in (IF kind = "stop" THEN BThrows(id) ELSE {FALSE}),
           thr \in (IF kind = "stop" THEN Throws(id) ELSE {<<>>}) :
          /\ Commit(onText(World, w, kind, bthrow, thr))
          /\ TdFault(bthrow, thr)
          /\ ev' = Event("text", o, kind)
  /\ nMsgs' = nMsgs + 1
  /\ UNCHANGED <<nSess, nSock, nStalls>>

\* broadcaster ws.on('close')
BroadcasterClose(w) ==
  /\ Tick
  /\ w <= nSock
  /\ sock[w].kind = "broadcaster"
  /\ sock[w].rs # "CLOSED"
  /\ LET o == sock[w].session
         id == sess[o].id
         W0 == [World EXCEPT !.sock[w].rs = "CLOSED", !.sock[w].inbound = FALSE]
     IN \E bthrow \in BThrows(id), thr \in Throws(id) :
          /\ Commit(teardownSession(W0, id, "broadcaster-disconnected", bthrow, thr))
          /\ TdFault(bthrow, thr)
          /\ ev' = Event("bc-close", o, "")
  /\ UNCHANGED <<nSess, nSock, nMsgs, nStalls>>

\* broadcaster ws.on('error'); ws emits 'close' afterwards
BroadcasterError(w) ==
  /\ Tick
  /\ w <= nSock
  /\ sock[w].kind = "broadcaster"
  /\ sock[w].rs # "CLOSED"
  /\ ~sock[w].errored
  /\ Faulty
  /\ LET o == sock[w].session
         id == sess[o].id
         W0 == [World EXCEPT !.sock[w].rs = "CLOSING", !.sock[w].inbound = FALSE,
                             !.sock[w].errored = TRUE]
     IN /\ Commit(teardownSession(W0, id, "error", FALSE,
                                  [l \in DOMAIN CHOOSE f \in Throws(id) : TRUE |-> "ok"]))
        /\ nFaults' = nFaults + 1
        /\ ev' = Event("bc-error", o, "")
  /\ UNCHANGED <<nSess, nSock, nMsgs, nStalls>>

\* listener ws.on('close') and ws.on('error'): the same body
detachListener(W, w) ==
  LET o == W.sock[w].session
  IN notifyListenerCount([W EXCEPT !.sess[o].listeners = @ \ {w}], o)

ListenerClose(w) ==
  /\ Tick
  /\ w <= nSock
  /\ sock[w].kind = "listener"
  /\ sock[w].rs # "CLOSED"
  /\ Commit(detachListener(
        [World EXCEPT !.sock[w].rs = "CLOSED", !.sock[w].inbound = FALSE], w))
  /\ ev' = Event("l-close", sock[w].session, "")
  /\ UNCHANGED counters

ListenerError(w) ==
  /\ Tick
  /\ w <= nSock
  /\ sock[w].kind = "listener"
  /\ sock[w].rs # "CLOSED"
  /\ ~sock[w].errored
  /\ Faulty
  /\ Commit(detachListener(
        [World EXCEPT !.sock[w].rs = "CLOSING", !.sock[w].inbound = FALSE,
                      !.sock[w].errored = TRUE], w))
  /\ ev' = Event("l-error", sock[w].session, "")
  /\ nFaults' = nFaults + 1
  /\ UNCHANGED <<nSess, nSock, nMsgs, nStalls>>

\* the callback of l.send(data, {binary: true}, cb) called with an error
sendCallbackError(W, w) ==
  LET o == W.sock[w].session
  IN [terminate(W, w) EXCEPT !.sess[o].listeners = @ \ {w},
                             !.sock[w].cbErr = FALSE]

SendCallback(w) ==
  /\ Tick
  /\ w <= nSock
  /\ sock[w].cbErr
  /\ Commit(sendCallbackError(World, w))
  /\ ev' = Event("send-cb", sock[w].session, "")
  /\ UNCHANGED counters

\* the peer starts closing (its close frame arrives): readyState leaves OPEN
\* before the 'close' event is emitted
PeerClosing(w) ==
  /\ Tick
  /\ w <= nSock
  /\ sock[w].kind \in {"broadcaster", "listener"}
  /\ sock[w].rs = "OPEN"
  /\ sock' = [sock EXCEPT ![w].rs = "CLOSING", ![w].inbound = FALSE]
  /\ ev' = Event("peer-closing", sock[w].session, "")
  /\ UNCHANGED <<sessions, sess, counters>>

\* 'close' of a refused broadcaster socket: the branch that refuses it
\* returns before any handler is registered
OtherClose(w) ==
  /\ Tick
  /\ w <= nSock
  /\ sock[w].kind = "rejected"
  /\ sock[w].rs # "CLOSED"
  /\ sock' = [sock EXCEPT ![w].rs = "CLOSED", ![w].inbound = FALSE]
  /\ ev' = Event("other-close", 0, "")
  /\ UNCHANGED <<sessions, sess, counters>>

\* session.wsWriteStream.on('drain')
onDrain(W, o) ==
  LET b == W.sess[o].drainTo
      W1 == [W EXCEPT !.sess[o].needDrain = FALSE]
  IN IF b = 0 THEN W1
     ELSE send([W1 EXCEPT !.sess[o].draining = FALSE], b, DrainFrame)

Drain(o) ==
  /\ Tick
  /\ o <= nSess
  /\ sess[o].needDrain
  /\ sess[o].ended = 0
  /\ Commit(onDrain(World, o))
  /\ ev' = Event("drain", o, "")
  /\ UNCHANGED counters

\* session.wsWriteStream emits 'error': a write failed on the disk, or (in
\* Node 14 and later) a write was issued after end().  No 'error' listener is
\* ever registered on the stream, so Node throws the error as an uncaught
\* exception and the process ends: every socket is gone and no handler runs
\* any more.  What had reached the file by then is not modelled.
StreamError(o) ==
  /\ steps < MaxSteps
  /\ o <= nSess
  /\ sess[o].rx # <<>>
  /\ LET afterEnd == Len(sess[o].rx) > Len(sess[o].rxLive)
     IN /\ afterEnd \/ Faulty
        /\ nFaults' = IF afterEnd THEN nFaults ELSE nFaults + 1
  /\ sock' = [w \in Sockets |->
               IF w <= nSock
               THEN [sock[w] EXCEPT !.rs = "CLOSED", !.inbound = FALSE]
               ELSE sock[w]]
  /\ steps' = MaxSteps
  /\ ev' = Event("stream-error", o, "exit")
  /\ UNCHANGED <<sessions, sess, nSess, nSock, nMsgs, nStalls, client>>

\* ------------------------------------------------------------------ page
\* variant: a held chunk is never dropped
sendChunkUnbounded(c, data) ==
  IF ~c.ws \/ c.readyState # "OPEN" THEN c
  ELSE IF c.paused THEN [c EXCEPT !.pendingChunks = Append(@, data)]
  ELSE [c EXCEPT !.wire = Append(@, data)]

\* sendChunk(data)
sendChunk(c, data) ==
  IF ~c.ws \/ c.readyState # "OPEN" THEN c
  ELSE IF c.paused
  THEN IF Len(c.pendingChunks) < MAX_PENDING
       THEN [c EXCEPT !.pendingChunks = Append(@, data)]
       ELSE [c EXCEPT !.pendingChunks = Append(Tail(@), data)]
  ELSE [c EXCEPT !.wire = Append(@, data)]

\* flushPendingChunks(): nothing inside the loop changes its condition, so
\* it sends either every held chunk or none
flushPendingChunks(c) ==
  IF c.pendingChunks # <<>> /\ ~c.paused /\ c.ws /\ c.readyState = "OPEN"
  THEN [c EXCEPT !.wire = @ \o c.pendingChunks, !.pendingChunks = <<>>]
  ELSE c

\* ws.onmessage, for a text frame of the given type
onmessage(c, type) ==
  IF type = "backpressure"
  THEN [c EXCEPT !.paused = TRUE, !.signal = type]
  ELSE IF type = "drain"
  THEN flushPendingChunks([c EXCEPT !.paused = FALSE, !.signal = type])
  ELSE c

\* ws.onopen
Opened ==
  /\ client.readyState = "CONNECTING"
  /\ client' = [client EXCEPT !.readyState = "OPEN", !.ev = "open"]
  /\ UNCHANGED server

\* recorder.ondataavailable: the chunks are numbered as they are produced
\* (the recorder runs from openWs on, and gives a last chunk after stop)
Produce ==
  /\ client.produced < MaxProduced
  /\ client' = [sendChunk(client, client.produced + 1)
                  EXCEPT !.produced = @ + 1, !.ev = "chunk"]
  /\ UNCHANGED server

\* a text frame of the server arrives (also while the socket is closing)
Receive(type) ==
  /\ client.readyState \in {"OPEN", "CLOSING"}
  /\ client' = [onmessage(client, type) EXCEPT !.ev = type]
  /\ UNCHANGED server

\* stopBroadcast(): ws.close(); ws = null; paused = false; pendingChunks = []
stopBroadcast ==
  /\ client.ws
  /\ client' = [client EXCEPT !.readyState = IF @ = "CLOSED" THEN @ ELSE "CLOSING",
                              !.ws = FALSE, !.paused = FALSE,
                              !.pendingChunks = <<>>, !.ev = "stop"]
  /\ UNCHANGED server

\* the server closes the socket, or the connection is lost
Closing ==
  /\ client.readyState = "OPEN"
  /\ client' = [client EXCEPT !.readyState = "CLOSING", !.ev = "closing"]
  /\ UNCHANGED server

\* ws.onclose
Closed ==
  /\ client.readyState # "CLOSED"
  /\ client' = [client EXCEPT !.readyState = "CLOSED", !.ev = "close"]
  /\ UNCHANGED server

\* ------------------------------------------------------------------ system
\* The random values are interchangeable: a new id (token) is one already in
\* use or the least unused one.
UsedIds == {sess[o].id : o \in 1..nSess}
UsedTokens == {sess[o].token : o \in 1..nSess}
FreshIds == {i \in Ids : \A j \in Ids : j < i => j \in UsedIds}
FreshTokens == {i \in Tokens : \A j \in Tokens : j < i => j \in UsedTokens}

\* only the listener gate reads the t parameter
Presented(role) == IF role = "listener" THEN Tokens \cup {NoToken} ELSE {NoToken}

Next ==
  \/ \E id \in FreshIds, token \in FreshTokens : Create(id, token)
  \/ \E id \in Ids : HttpStop(id)
  \/ \E o \in Objs : TimerFire(o)
  \/ \E sid \in Ids \cup {NoSid}, role \in Roles :
       \E t \in Presented(role) : Upgrade(sid, role, t)
  \/ \E w \in Sockets, chunk \in Chunks : BinaryMessage(w, chunk)
  \/ \E w \in Sockets, kind \in TextKinds : TextMessage(w, kind)
  \/ \E w \in Sockets : BroadcasterClose(w)
  \/ \E w \in Sockets : BroadcasterError(w)
  \/ \E w \in Sockets : ListenerClose(w)
  \/ \E w \in Sockets : ListenerError(w)
  \/ \E w \in Sockets : SendCallback(w)
  \/ \E w \in Sockets : PeerClosing(w)
  \/ \E w \in Sockets : OtherClose(w)
  \/ \E o \in Objs : Drain(o)
  \/ \E o \in Objs : StreamError(o)

Spec == Init /\ [][Next]_vars

PathNext == \E file \in FileParams : Download(file)

PathSpec == Init /\ [][PathNext]_vars

ServerFrames == {"backpressure", "drain", "listener-count"}

ClientNext ==
  \/ Opened
  \/ Produce
  \/ \E type \in ServerFrames : Receive(type)
  \/ stopBroadcast
  \/ Closing
  \/ Closed

ClientSpec == Init /\ [][ClientNext]_vars

\* ------------------------------------------------------------------ properties
Live(o) == o <= nSess
BroadcasterSockets(o) ==
  {w \in Sockets : sock[w].kind = "broadcaster" /\ sock[w].session = o}
ListenerSockets(o) ==
  {w \in Sockets : sock[w].kind = "listener" /\ sock[w].session = o}
TornDown(o) == sess[o].ended > 0
LastFrame(w) == sock[w].sent[Len(sock[w].sent)]
BinaryFrames(w) ==
  {i \in 1..Len(sock[w].sent) : sock[w].sent[i].type = "binary"}

\* c1 || c2 || ... || cn
RECURSIVE Flatten(_)
Flatten(cs) == IF cs = <<>> THEN <<>> ELSE Head(cs) \o Flatten(Tail(cs))

\* C1: a session has at most one broadcaster socket: the socket in the slot
\* is the only socket ever wired as broadcaster of the session (a later
\* broadcaster connection does not replace it), and the slot of a session
\* that had a broadcaster is empty only after teardown.
C1_OneBroadcaster ==
  \A o \in Objs :
    /\ Cardinality(BroadcasterSockets(o)) <= 1
    /\ sess[o].broadcasterSocket # 0 =>
         BroadcasterSockets(o) = {sess[o].broadcasterSocket}
    /\ (sess[o].broadcasterSocket = 0 /\ BroadcasterSockets(o) # {}) => TornDown(o)

\* a second broadcaster connection was refused while the first is attached
C1_Witness ==
  \E o \in Objs, w \in Sockets :
    /\ sock[w].kind = "rejected" /\ sock[w].session = o
    /\ sess[o].broadcasterSocket \notin {0, w}

\* C2: the listener set of a session never holds more than MAX_LISTENERS
\* sockets; a listener upgrade that finds it full is destroyed at the gate.
C2_ListenerCap ==
  /\ \A o \in Objs : Cardinality(sess[o].listeners) <= MAX_LISTENERS
  /\ (ev.op = "upgrade" /\ ev.res = "full") =>
       \E o \in Objs : Cardinality(sess[o].listeners) = MAX_LISTENERS

\* the gate has just refused a listener because the set is full
C2_Witness ==
  /\ ev.op = "upgrade" /\ ev.res = "full"
  /\ \E o \in Objs : Cardinality(sess[o].listeners) = MAX_LISTENERS

\* C3: a socket enters a listener set only with the token of that session;
\* the step in which the gate refuses a token changes no session, no socket
\* and sends no frame.
C3_TokenGate ==
  [][/\ \A o \in Objs : \A w \in sess'[o].listeners \ sess[o].listeners :
          sock'[w].t = sess[o].token /\ sock'[w].t # NoToken
     /\ (ev'.op = "upgrade" /\ ev'.res = "bad-token") =>
          UNCHANGED <<sessions, sess, sock, nSock>>]_vars

\* a listener was admitted earlier and the gate has just refused a token
C3_Witness ==
  /\ ev.op = "upgrade" /\ ev.res = "bad-token"
  /\ \E o \in Objs : sess[o].listeners # {}

\* C4: a session that has been torn down is out of the store and inactive,
\* and its listener set and broadcaster slot stay empty: no later upgrade is
\* admitted to it in either role.
C4_NoAdmissionAfterTeardown ==
  \A o \in Objs : TornDown(o) =>
    /\ sess[o].listeners = {}
    /\ sess[o].broadcasterSocket = 0
    /\ ~sess[o].active
    /\ sessions[sess[o].id] # o

\* every id names a session that was torn down, and an upgrade was refused
C4_Witness ==
  /\ ev.op = "upgrade" /\ ev.res = "no-session"
  /\ \A id \in Ids : sessions[id] = 0 /\ \E o \in Objs : TornDown(o) /\ sess[o].id = id

\* C5: a binary frame handled after the teardown of its session is a no-op:
\* it is not cached as init segment, not written, not sent to a listener.
C5_LateFrameIsNoOp ==
  [][\A o \in Objs : (TornDown(o) /\ sess'[o].rx # sess[o].rx) =>
        /\ sess'[o].initSegment = sess[o].initSegment
        /\ sess'[o].initSegmentReceived = sess[o].initSegmentReceived
        /\ sess'[o].recording = sess[o].recording
        /\ \A w \in ListenerSockets(o) : sock'[w].sent = sock[w].sent]_vars

\* C6: the recording holds exactly the chunks received before teardown, in
\* order, each once; the stream is ended once, at teardown, and a session
\* whose stream is ended is out of the store.
C6_RecordingIsConcatenation ==
  \A o \in Objs :
    /\ sess[o].recording = Flatten(sess[o].rxLive)
    /\ sess[o].ended <= 1
    /\ Live(o) => (sess[o].ended = 1 <=> ~sess[o].active)
    /\ TornDown(o) => sessions[sess[o].id] # o

\* a torn-down session that recorded two different chunks
C6_Witness ==
  \E o \in Objs :
    /\ TornDown(o)
    /\ Len(sess[o].rxLive) >= 2
    /\ sess[o].rxLive[1] # sess[o].rxLive[2]
    /\ sess[o].recording = sess[o].rxLive[1] \o sess[o].rxLive[2]

\* C7: a chunk of session A reaches only A's recording and A's listeners.
C7_SessionIsolation ==
  /\ \A o \in Objs : sess[o].recFrom \subseteq {o}
  /\ \A w \in Sockets : sock[w].kind = "listener" =>
       \A i \in BinaryFrames(w) : sock[w].sent[i].origin = sock[w].session

\* two sessions are live, each with a listener, and only one listener got a chunk
C7_Witness ==
  \E a, b \in Objs :
    /\ a # b /\ sess[a].active /\ sess[b].active
    /\ \E la \in sess[a].listeners, lb \in sess[b].listeners :
         BinaryFrames(la) # {} /\ BinaryFrames(lb) = {}

\* C8: a teardown trigger of a session that was already torn down changes no
\* session and sends no frame.
C8_LaterTriggersAreNoOps ==
  [][(ev'.op \in {"bc-close", "bc-error", "timer", "text"}
      /\ ev'.o \in Objs /\ TornDown(ev'.o)) =>
        /\ sessions' = sessions
        /\ sess' = sess
        /\ \A w \in Sockets : sock'[w].sent = sock[w].sent]_vars

\* the reason each trigger passes to teardownSession
ReasonOf(e) ==
  IF e.op = "http-stop" \/ e.op = "text" THEN "stopped-by-broadcaster"
  ELSE IF e.op = "timer" THEN "expired"
  ELSE IF e.op = "bc-close" THEN "broadcaster-disconnected"
  ELSE "error"

\* C9: at teardown every socket of the listener set is sent session-ended
\* with the trigger's reason and closed, or is terminated; the set is emptied;
\* nothing is sent to a listener after its session-ended frame.
C9_ListenersNotified ==
  [][/\ \A o \in Objs : sess'[o].ended > sess[o].ended =>
          /\ sess'[o].listeners = {}
          /\ \A l \in sess[o].listeners :
               \/ sock'[l].terminated
               \/ /\ sock'[l].sent = Append(sock[l].sent, SessionEnded(ReasonOf(ev')))
                  /\ sock'[l].rs # "OPEN"
     /\ \A w \in Sockets :
          (sock[w].sent # <<>> /\ LastFrame(w).type = "session-ended") =>
             sock'[w].sent = sock[w].sent]_vars

\* two listeners of one session hold session-ended as their last frame
C9_Witness ==
  \E o \in Objs, l1, l2 \in Sockets :
    /\ l1 # l2 /\ TornDown(o)
    /\ \A l \in {l1, l2} :
         /\ sock[l].kind = "listener" /\ sock[l].session = o
         /\ sock[l].sent # <<>> /\ LastFrame(l).type = "session-ended"
         /\ sock[l].closeCalled

\* C10: the first binary frame a session receives becomes its init segment;
\* afterwards the init segment changes only by being cleared at teardown.
C10_InitSegmentOnce ==
  [][\A o \in Objs :
       /\ (sess[o].rx = <<>> /\ sess'[o].rx # <<>>) =>
             sess'[o].initSegment = <<sess'[o].rx[1]>>
       /\ sess'[o].initSegment # sess[o].initSegment =>
             \/ sess[o].rx = <<>> /\ sess'[o].rx # <<>>
             \/ sess'[o].initSegment = <<>> /\ sess'[o].ended > sess[o].ended]_vars

\* a second, different chunk arrived and the init segment is still the first
C10_Witness ==
  \E o \in Objs :
    /\ Len(sess[o].rx) >= 2
    /\ sess[o].rx[1] # sess[o].rx[2]
    /\ sess[o].initSegment = <<sess[o].rx[1]>>

\* ---- frames on one socket
BinaryIn(s) == {i \in 1..Len(s) : s[i].type = "binary"}
Listeners == {w \in Sockets : sock[w].kind = "listener"}
\* the first chunk the session ever received: its init segment
FirstChunk(o) == sess[o].rx[1]
LastChunk(rx) == rx[Len(rx)]
\* s extends r by the frames ext
Extends(s, r, ext) == s = r \o ext

\* C11 (as stated): every binary frame sent to a listener either follows the
\* session's init segment on that socket, or is the init segment and directly
\* follows its init-segment announcement.
C11_InitSegmentAnnounced ==
  \A w \in Listeners :
    LET o == sock[w].session
        s == sock[w].sent
    IN \A i \in BinaryIn(s) :
         \/ \E j \in BinaryIn(s) : j < i /\ s[j].data = FirstChunk(o)
         \/ /\ s[i].data = FirstChunk(o)
            /\ i > 1
            /\ s[i - 1] = InitSegmentAnnounce(Len(s[i].data))

\* C11 (amended): every binary frame sent to a listener either follows the
\* session's init segment on that socket or is the init segment; an
\* announcement is sent only for the cached segment, which follows it at once
\* and is the first binary frame of that socket.  (A listener attached before
\* the first chunk gets it from the fan-out, without announcement.)
C11_InitSegmentLeads ==
  \A w \in Listeners :
    LET o == sock[w].session
        s == sock[w].sent
    IN /\ \A i \in BinaryIn(s) :
            \/ \E j \in BinaryIn(s) : j < i /\ s[j].data = FirstChunk(o)
            \/ s[i].data = FirstChunk(o)
       /\ \A j \in 1..Len(s) : s[j].type = "init-segment" =>
            /\ j < Len(s)
            /\ s[j] = InitSegmentAnnounce(Len(FirstChunk(o)))
            /\ s[j + 1] = Binary(FirstChunk(o), o)
            /\ \A i \in BinaryIn(s) : i > j

\* one listener attached before the first chunk and one after it, and both
\* were then sent a second, different chunk
C11_Witness ==
  \E o \in Objs, w1, w2 \in Listeners :
    /\ sock[w1].session = o /\ sock[w2].session = o
    /\ Len(sess[o].rx) = 2 /\ sess[o].rx[1] # sess[o].rx[2]
    /\ \A j \in 1..Len(sock[w1].sent) : sock[w1].sent[j].type # "init-segment"
    /\ Cardinality(BinaryIn(sock[w1].sent)) = 2
    /\ \E j \in 1..Len(sock[w2].sent) : sock[w2].sent[j].type = "init-segment"
    /\ Cardinality(BinaryIn(sock[w2].sent)) = 2

\* C12: a listener admitted after chunks c1..ck is sent, in its admission,
\* the announcement with the size of c1 and then c1, and no other binary
\* frame; afterwards a binary frame is handed to a listener only in the step
\* in which a chunk arrives for its session, and it is that chunk; every
\* arriving chunk is handed to each attached OPEN listener (or the listener
\* is terminated).  Frames already sent are never changed.
C12_LateJoinerOrder ==
  [][/\ (ev'.op = "upgrade" /\ ev'.res = "listener" /\ sess[ev'.o].rx # <<>>) =>
          LET s == sock'[nSock'].sent
              c1 == sess[ev'.o].rx[1]
          IN \E k \in 1..Len(s) - 1 :
               /\ s[k] = InitSegmentAnnounce(Len(c1))
               /\ s[k + 1] = Binary(c1, ev'.o)
               /\ BinaryIn(s) = {k + 1}
     /\ \A w \in Listeners :
          LET o == sock[w].session
              n == Len(sock[w].sent)
              ext == SubSeq(sock'[w].sent, n + 1, Len(sock'[w].sent))
              arrived == Len(sess'[o].rx) = Len(sess[o].rx) + 1
          IN /\ Len(sock'[w].sent) >= n
             /\ Extends(sock'[w].sent, sock[w].sent, ext)
             /\ BinaryIn(ext) # {} =>
                  /\ arrived
                  /\ SubSeq(sess'[o].rx, 1, Len(sess[o].rx)) = sess[o].rx
                  /\ ext = <<Binary(LastChunk(sess'[o].rx), o)>>
             /\ (arrived /\ w \in sess[o].listeners /\ sock[w].rs = "OPEN") =>
                  \/ ext = <<Binary(LastChunk(sess'[o].rx), o)>>
                  \/ sock'[w].terminated]_vars

\* a listener joined after c1 and c2 # c1, and was sent c1 and then c3 # c2
C12_Witness ==
  \E w \in Listeners :
    LET o == sock[w].session
        s == sock[w].sent
        rx == sess[o].rx
    IN /\ Len(rx) = 3 /\ rx[2] # rx[1] /\ rx[3] # rx[2]
       /\ \E k \in 1..Len(s) - 1 :
            /\ s[k].type = "init-segment"
            /\ s[k + 1] = Binary(rx[1], o)
            /\ s[Len(s)] = Binary(rx[3], o)
            /\ BinaryIn(s) = {k + 1, Len(s)}

\* the listener admitted last found a broadcaster and a cached init segment
AdmittedToLiveStream ==
  /\ ev.op = "upgrade" /\ ev.res = "listener"
  /\ sess[ev.o].broadcasterSocket # 0
  /\ sess[ev.o].initSegment # <<>>

Signals(s) == {i \in 1..Len(s) : s[i].type \in {"backpressure", "drain"}}
PrevSignals(s, i) == {j \in Signals(s) : j < i}
Latest(S) == CHOOSE i \in S : \A j \in S : j <= i

\* C14: on a broadcaster socket backpressure and drain frames alternate,
\* beginning with backpressure, and the latch is set exactly while the last
\* of them is a backpressure frame.
C14_BackpressureAlternates ==
  \A w \in Sockets : sock[w].kind = "broadcaster" =>
    LET s == sock[w].sent
        o == sock[w].session
    IN /\ \A i \in Signals(s) :
            IF PrevSignals(s, i) = {}
            THEN s[i].type = "backpressure"
            ELSE s[i].type # s[Latest(PrevSignals(s, i))].type
       /\ sess[o].draining <=>
            (Signals(s) # {} /\ s[Latest(Signals(s))].type = "backpressure")

\* the only session had two writes that were not accepted before the stream
\* drained: one backpressure frame, then one drain frame
C14_Witness ==
  /\ nSess = 1 /\ nStalls = 2
  /\ ev.op = "drain"
  /\ \E w \in Sockets :
       /\ sock[w].kind = "broadcaster"
       /\ Cardinality(Signals(sock[w].sent)) = 2

\* ---- per-listener buffering
\* The scaled-down depth of the outbound queue (32 chunks in the spec).
QueueDepth == 2

\* No step of the model takes a frame off a listener's socket: every listener
\* is one whose peer never reads, and the chunks handed to send() are the
\* chunks the server holds for it.
Queued(w) == Cardinality(BinaryIn(sock[w].sent))

\* C15: the number of chunks held for a listener never exceeds the depth of
\* its queue.
C15_BoundedQueue ==
  \A w \in Listeners : Queued(w) <= QueueDepth

\* C16: in the step in which a chunk arrives for a live session the chunk is
\* appended to the recording and handed to every attached OPEN listener
\* whose send works; a listener whose send throws is terminated and removed,
\* and it alone; the session stays live and in the store and no other
\* session changes.  A send that fails later removes that listener alone.
C16_FailureIsolated ==
  [][/\ \A o \in Objs :
          (Len(sess'[o].rx) > Len(sess[o].rx) /\ sess[o].ended = 0) =>
            LET c == LastChunk(sess'[o].rx)
            IN /\ sess'[o].recording = sess[o].recording \o c
               /\ sess'[o].active /\ sess'[o].ended = 0
               /\ sess'[o].broadcasterSocket = sess[o].broadcasterSocket
               /\ sessions' = sessions
               /\ \A p \in Objs \ {o} : sess'[p] = sess[p]
               /\ \A l \in sess[o].listeners :
                    IF sock[l].rs = "OPEN"
                    THEN \/ /\ sock'[l].sent = Append(sock[l].sent, Binary(c, o))
                            /\ sock'[l].rs = "OPEN"
                            /\ l \in sess'[o].listeners
                         \/ /\ sock'[l].terminated
                            /\ sock'[l].sent = sock[l].sent
                            /\ l \notin sess'[o].listeners
                    ELSE sock'[l] = sock[l] /\ l \in sess'[o].listeners
     /\ ev'.op = "send-cb" =>
          /\ sessions' = sessions
          /\ \E l \in Sockets :
               /\ sock'[l].rs # "OPEN" /\ sock'[l].sent = sock[l].sent
               /\ \A w \in Sockets \ {l} : sock'[w] = sock[w]
               /\ sess' = [sess EXCEPT ![ev'.o].listeners = @ \ {l}]]_vars

\* a chunk was handed to one listener in the step in which the send to
\* another listener of the session threw
C16_Witness ==
  /\ ev.op = "binary"
  /\ sess[ev.o].active
  /\ \E l1, l2 \in Listeners :
       /\ sock[l1].session = ev.o /\ sock[l2].session = ev.o
       /\ sock[l1].terminated /\ BinaryIn(sock[l1].sent) = {}
       /\ l1 \notin sess[ev.o].listeners
       /\ l2 \in sess[ev.o].listeners
       /\ sock[l2].sent # <<>> /\ LastFrame(l2).type = "binary"

\* C17: a session whose teardown has begun has been torn down completely:
\* inactive, timer cancelled, slot empty, listener set empty, stream ended,
\* entry removed, whichever socket calls failed.
C17_TeardownCompletes ==
  \A o \in Objs : (Live(o) /\ ~sess[o].active) =>
    /\ ~sess[o].cleanupTimer
    /\ sess[o].broadcasterSocket = 0
    /\ sess[o].listeners = {}
    /\ sess[o].ended = 1
    /\ sessions[sess[o].id] # o

\* a teardown in which the close of the broadcaster socket threw (the socket
\* is still OPEN) and the send to a listener threw (it got no session-ended)
C17_Witness ==
  \E o \in Objs, b \in Sockets, l \in Listeners :
    /\ TornDown(o)
    /\ sock[b].kind = "broadcaster" /\ sock[b].session = o
    /\ sock[b].rs = "OPEN"
    /\ sock[l].session = o /\ sock[l].terminated
    /\ \A i \in 1..Len(sock[l].sent) : sock[l].sent[i].type # "session-ended"

\* C18: when the close or the error of its broadcaster socket tears a session
\* down, the session-ended frames carry the reason broadcaster-disconnected.
C18_DisconnectReason ==
  [][(ev'.op \in {"bc-close", "bc-error"}
      /\ sess[ev'.o].ended = 0 /\ sess'[ev'.o].ended = 1) =>
        \A l \in sess[ev'.o].listeners :
          sock'[l].sent # sock[l].sent =>
            sock'[l].sent[Len(sock'[l].sent)] =
              SessionEnded("broadcaster-disconnected")]_vars

C20_NoIdCollision ==
  \A o \in Objs : sess[o].active => sessions[sess[o].id] = o

\* C21: a session whose expiry timer is no longer pending (it fired, or a
\* teardown cancelled it) has been torn down.
C21_ExpiryTearsDown ==
  \A o \in Objs : (Live(o) /\ ~sess[o].timerArmed) => TornDown(o)

\* C22: a stop call on an id of the store answers 200 with the name of the
\* session's recording file, and tears that session down: the entry is
\* removed and each listener is sent session-ended with reason
\* stopped-by-broadcaster, or is terminated.  On any other id it answers 404,
\* and the store, the sessions and the sockets are as before.
C22_StopAnswers ==
  [][ev'.op = "http-stop" =>
       LET id == ev'.id
           o == sessions[id]
       IN IF o # 0
          THEN /\ ev'.res = "200" /\ ev'.o = o
               /\ ev'.recording = FileName(id, o)
               /\ sessions'[id] = 0
               /\ ~sess'[o].active /\ sess'[o].ended = 1
               /\ sess'[o].listeners = {}
               /\ \A l \in sess[o].listeners :
                    \/ sock'[l].terminated
                    \/ /\ sock'[l].sent =
                            Append(sock[l].sent, SessionEnded("stopped-by-broadcaster"))
                       /\ sock'[l].rs # "OPEN"
          ELSE /\ ev'.res = "404"
               /\ sessions' = sessions /\ sess' = sess /\ sock' = sock]_vars

\* a stop call is repeated: the first ended a session with a listener, which
\* was told stopped-by-broadcaster, and the second was answered 404
C22_Witness ==
  /\ ev.op = "http-stop" /\ ev.res = "404"
  /\ \E o \in Objs, l \in Sockets :
       /\ Live(o) /\ sess[o].id = ev.id /\ TornDown(o)
       /\ sock[l].kind = "listener" /\ sock[l].session = o
       /\ sock[l].sent # <<>>
       /\ LastFrame(l) = SessionEnded("stopped-by-broadcaster")

Started(w) ==
  {i \in 1..Len(sock[w].sent) : sock[w].sent[i] = BroadcastStarted}

\* C23: no listener is sent broadcast-started twice; a listener that was
\* sent it belongs to a session that has had a broadcaster; and every member
\* of the listener set of a session whose broadcaster slot is filled has been
\* sent it.
C23_BroadcastStartedOnce ==
  \A o \in Objs :
    /\ \A l \in ListenerSockets(o) :
         /\ Cardinality(Started(l)) <= 1
         /\ Started(l) # {} => BroadcasterSockets(o) # {}
    /\ sess[o].broadcasterSocket # 0 =>
         \A l \in sess[o].listeners : Cardinality(Started(l)) = 1

\* two listeners of one session, one attached before its broadcaster and one
\* after, each hold broadcast-started once
C23_Witness ==
  \E o \in Objs, b, l1, l2 \in Sockets :
    /\ l1 < b /\ b < l2
    /\ sess[o].broadcasterSocket = b
    /\ {l1, l2} \subseteq sess[o].listeners
    /\ Cardinality(Started(l1)) = 1 /\ Cardinality(Started(l2)) = 1

C25_RelaySurvivesWriteFailure ==
  [][(ev'.op = "stream-error" /\ ~TornDown(ev'.o)) =>
       \A w \in Sockets : sock'[w].rs = sock[w].rs]_vars

\* C26: a file that the download route serves lies directly inside the
\* recordings directory.
C26_ServedFromRecordings ==
  (ev.op = "download" /\ ev.res = "200") =>
     /\ Len(ev.served) = Len(RECORDINGS_DIR) + 1
     /\ SubSeq(ev.served, 1, Len(RECORDINGS_DIR)) = RECORDINGS_DIR

\* C27: a text frame of a broadcaster leaves every recording as it was and
\* hands no binary frame to any socket.  A meta frame is sent as a meta frame
\* to the OPEN listeners of the broadcaster's session, to no other socket,
\* and changes no session.  A stop frame of a session that has not ended
\* ends that session, with reason stopped-by-broadcaster, and no other.  Any
\* other text frame changes no session and sends nothing.
C27_TextFrames ==
  [][ev'.op = "text" =>
       LET o == ev'.o
       IN /\ \A p \in Objs : sess'[p].recording = sess[p].recording
          /\ \A w \in Sockets : BinaryIn(sock'[w].sent) = BinaryIn(sock[w].sent)
          /\ ev'.res = "meta" =>
               /\ sessions' = sessions /\ sess' = sess
               /\ \A w \in Sockets :
                    sock'[w].sent =
                      IF w \in sess[o].listeners /\ sock[w].rs = "OPEN"
                      THEN Append(sock[w].sent, MetaFrame)
                      ELSE sock[w].sent
          /\ (ev'.res = "stop" /\ ~TornDown(o)) =>
               /\ sess'[o].ended = 1 /\ ~sess'[o].active
               /\ \A l \in sess[o].listeners :
                    \/ sock'[l].terminated
                    \/ sock'[l].sent =
                         Append(sock[l].sent, SessionEnded("stopped-by-broadcaster"))
               /\ \A p \in Objs \ {o} : sess'[p] = sess[p]
          /\ ev'.res \in {"other", "garbage"} =>
               sessions' = sessions /\ sess' = sess /\ sock' = sock]_vars

\* C28: while the last signal of the server is backpressure the page gives
\* no chunk to the socket (a); it never holds more than MAX_PENDING chunks
\* (b); a chunk produced while it is paused is appended to the held chunks,
\* and takes the place of the oldest when MAX_PENDING are held (c); on drain
\* the held chunks are given to the socket in their order and none stays
\* held (d); the socket is given chunks in the order they were produced (e).
C28_ClientHoldsWhilePaused ==
  [][LET c == client
         d == client'
         up == c.ws /\ c.readyState = "OPEN"
     IN /\ (c.signal = "backpressure" /\ d.signal = "backpressure") =>
             d.wire = c.wire
        /\ Len(d.pendingChunks) <= MAX_PENDING
        /\ (d.ev = "chunk" /\ up /\ c.paused) =>
             /\ d.wire = c.wire
             /\ d.pendingChunks =
                  IF Len(c.pendingChunks) < MAX_PENDING
                  THEN Append(c.pendingChunks, d.produced)
                  ELSE Append(Tail(c.pendingChunks), d.produced)
        /\ (d.ev = "drain" /\ up) =>
             /\ d.wire = c.wire \o c.pendingChunks
             /\ d.pendingChunks = <<>>
        /\ \A i, j \in 1..Len(d.wire) : i < j => d.wire[i] < d.wire[j]]_vars

\* the page held MAX_PENDING chunks at a drain, after it had dropped one,
\* and gave them to the socket
C28_Witness ==
  /\ client.ev = "drain"
  /\ client.pendingChunks = <<>>
  /\ Len(client.wire) >= MAX_PENDING
  /\ client.wire[1] # 1
  /\ client.wire[Len(client.wire)] = client.produced

\* C29: a close or error event of the broadcaster socket of a session that
\* has ended, or the timer of such a session, ends no session and removes
\* no entry of the store.
C29_StaleTriggerSparesNewer ==
  [][(ev'.op \in {"bc-close", "bc-error", "timer"}
      /\ ev'.o \in Objs /\ TornDown(ev'.o)) =>
        /\ sessions' = sessions
        /\ \A o \in Objs : sess'[o].ended = sess[o].ended]_vars

\* C30: when the server handles the close of a session's broadcaster socket
\* and next the stop call for the id of that session, the call is answered
\* 200 and the listeners of the session that were told the session ended
\* were told stopped-by-broadcaster.
C30_StopAfterClose ==
  [][(ev.op = "bc-close" /\ ev'.op = "http-stop" /\ ev'.id = sess[ev.o].id) =>
       /\ ev'.res = "200"
       /\ \A l \in ListenerSockets(ev.o) :
            (sock'[l].sent # <<>>
             /\ sock'[l].sent[Len(sock'[l].sent)].type = "session-ended") =>
               sock'[l].sent[Len(sock'[l].sent)] =
                 SessionEnded("stopped-by-broadcaster")]_vars

\* ---- the count the broadcaster knows
\* positions of the listener-count frames on a socket
Counts(s) == {i \in 1..Len(s) : s[i].type = "listener-count"}
\* the count of the last of them; 0 when none was sent
LastCount(s) == IF Counts(s) = {} THEN 0 ELSE s[Latest(Counts(s))].n
\* no attach or detach of a listener of the session is pending: each of its
\* listener sockets is open and in the set, or closed and out of it
Settled(o) ==
  \A l \in ListenerSockets(o) :
    \/ l \in sess[o].listeners /\ sock[l].rs = "OPEN"
    \/ l \notin sess[o].listeners /\ sock[l].rs = "CLOSED"

\* C31: when the broadcaster of a session is attached and open and no attach
\* or detach of a listener is pending, the last listener-count frame handed
\* to the broadcaster carries the size of the listener set.
C31_CountIsCurrent ==
  \A o \in Objs :
    LET b == sess[o].broadcasterSocket
    IN (b # 0 /\ sock[b].rs = "OPEN" /\ Settled(o)) =>
         LastCount(sock[b].sent) = Cardinality(sess[o].listeners)

====
